---- MODULE Spec2Model ----
(***************************************************************************)
(* git-backup: the run orchestrator (cmd/git-backup/main.go, main) and the *)
(* repository sync engine (repository.go, Repository.CloneInto and         *)
(* Repository.fetchAllRefs).                                               *)
(*                                                                         *)
(* One action is one call into the environment (configuration, source      *)
(* adapter, file system, go-git, HTTP) together with all the code that     *)
(* runs after it up to the next such call.  The outcome of an environment  *)
(* call is a nondeterministic choice among the results that call can give. *)
(* Durations and timestamps of BackupResult, the -version and -insecure    *)
(* flags and the text of the Slack message are not modelled.  Spec is a    *)
(* run of main; SyncSpec is CloneInto called on its own, with its library  *)
(* calls logged.                                                           *)
(***************************************************************************)
EXTENDS Integers, Sequences, FiniteSets, TLC

\* ------------------------------------------------------------------ bounds
MaxSources == 2
MaxRepos == 3
MaxTotalRepos == 3

\* ------------------------------------------------------- program constants
ExitOK == 0
ExitConfig == 1
ExitNoSources == 111
ExitConnection == 110
ExitCommunication == 100
ExitRepoFailure == 100

\* error values that CloneInto and fetchAllRefs tell apart
NoError == "nil"
NoErrAlreadyUpToDate == "NoErrAlreadyUpToDate"
ErrEmptyRemoteRepository == "ErrEmptyRemoteRepository"
ErrRepositoryAlreadyExists == "ErrRepositoryAlreadyExists"
\* any other error of a call that contacts the remote
ErrTransport == "transport error"
\* any error of a call that only reads the local repository
ErrLocal == "local repository error"

VARIABLES
    \* main
    pc,           \* position in main
    failAtEnd,    \* flag backup.fail-at-end
    webhookURL,   \* flag slack.webhook / SLACK_WEBHOOK_URL
    nSources,     \* len(sources)
    si,           \* index of the source of the outer loop
    nRepos,       \* len(repos) of the current source
    ri,           \* index of the repository of the inner loop
    repoCount,
    errors,
    failedRepos,
    exitCode,     \* meaningful once pc = "exited"
    sent,         \* the BackupResults handed to SendSlackNotification, in order
    posts,        \* the outcomes of the HTTP POSTs made, in order
    \* CloneInto
    cpc,          \* position in CloneInto / fetchAllRefs
    err,          \* the variable err of CloneInto (and of fetchAllRefs)
    site,         \* which call of fetchAllRefs runs: 1 (line 149) or 2 (line 168)
    local,        \* what the target path holds when CloneInto starts
    remote,       \* "empty" (zero commits) or "populated"
    ret,          \* the return statement CloneInto left through
    ops,          \* the library calls of the current CloneInto, in order
    logOps,       \* whether ops is kept (fixed for a behaviour)
    faulted,      \* whether a remote call of the current CloneInto failed in transport
    \* the caller of CloneInto and the refs of the path
    stale,        \* the ref namespaces in which the path differs from the remote
    quiet,        \* whether the remote stays as it is while the path is synced
    calls,        \* the calls of CloneInto made on the path (SyncSpec)
    prev,         \* what the previous call on the path did (SyncSpec)
    \* history
    cause,        \* why the process exited
    listings,     \* the number of repositories each listed source returned
    attempts,     \* the MkdirAll and CloneInto calls main has made, in order
    outcomes      \* one record per repository the inner loop has handled

mainVars == <<pc, failAtEnd, webhookURL, nSources, si, nRepos, ri, repoCount,
              errors, failedRepos, exitCode, sent, posts>>
cloneVars == <<cpc, err, site, local, remote, ret, ops, logOps, faulted>>
callerVars == <<stale, quiet, calls, prev>>
histVars == <<cause, listings, attempts, outcomes>>
vars == <<mainVars, cloneVars, callerVars, histVars>>

\* ------------------------------------------------------------ environment
WebhookURLs == {"", "https://hooks.example/T000"}
\* What the target path holds: no repository; a repository that PlainOpen cannot
\* open; one whose configuration says bare (or cannot be read, which CloneInto
\* treats the same way); a non-bare one; one whose configuration says non-bare
\* but that has no worktree.
LocalStates == {"absent", "unopenable", "bare", "nonbare", "nonbare-noworktree"}
RemoteStates == {"empty", "populated"}
DeliveryOutcomes == {"200", "non-200", "post-error"}

\* What a clone, pull or fetch can answer: an empty remote gives the
\* empty-repository signal, a populated one nil or already-up-to-date; either
\* can fail in transport.
RemoteAnswers(rem) ==
    IF rem = "empty" THEN {ErrEmptyRemoteRepository, ErrTransport}
    ELSE {NoError, NoErrAlreadyUpToDate, ErrTransport}

RefNamespaces == {"heads", "tags"}

\* no call of CloneInto has been made on the path yet
NoCall == [local |-> "none", err |-> NoError, ret |-> "none", faulted |-> FALSE,
           did |-> "none", due |-> FALSE, wasDue |-> FALSE]

\* What a fetch of the namespace ns can answer.  A remote that is left alone
\* answers already-up-to-date when the path has all its refs and nil when it
\* lacks refs of ns (a fetch may bring refs of the other namespace along); a
\* remote that changes meanwhile can answer either.
FetchAnswers(ns) ==
    IF remote = "empty" \/ ~quiet THEN RemoteAnswers(remote)
    ELSE IF stale = {} THEN RemoteAnswers(remote) \ {NoError}
    ELSE IF ns \in stale THEN RemoteAnswers(remote) \ {NoErrAlreadyUpToDate}
    ELSE RemoteAnswers(remote)

\* What a pull of the current branch can answer: already-up-to-date when the
\* path has all refs of a remote left alone, else either.
PullAnswers ==
    IF remote # "empty" /\ quiet /\ stale = {} THEN RemoteAnswers(remote) \ {NoError}
    ELSE RemoteAnswers(remote)

\* the namespaces still differing after the call op answered a
StaleAfter(op, a) ==
    IF ~quiet \/ a # NoError THEN stale
    ELSE CASE op = "PlainClone" -> {}
           [] op = "FetchBranches" -> stale \ {"heads"}
           [] op \in {"FetchTags", "FetchTagRefs"} -> stale \ {"tags"}
           [] OTHER -> stale

\* git.PlainClone: a path that holds a repository is refused before the remote
\* is contacted; a clone never answers already-up-to-date.
PlainCloneAnswers(loc, rem) ==
    IF loc # "absent" THEN {ErrRepositoryAlreadyExists}
    ELSE RemoteAnswers(rem) \ {NoErrAlreadyUpToDate}

\* ------------------------------------------------------------- CloneInto
Return(e, r) == [cpc |-> "returned", err |-> e, site |-> 0, ret |-> r]

StartFetchAllRefs(e, s) == [cpc |-> "FetchBranches", err |-> e, site |-> s, ret |-> "none"]

\* FirstSwitch ending the call on an already-up-to-date pull
FirstSwitchUpToDateReturns(e) ==
    IF e = ErrEmptyRemoteRepository THEN Return(NoError, "skipped-empty")
    ELSE IF e = NoErrAlreadyUpToDate THEN Return(NoError, "already-current")
    ELSE IF e = NoError THEN StartFetchAllRefs(e, 2)
    ELSE Return(e, "failed")

\* FirstSwitch without its empty-repository case
FirstSwitchWithoutEmptyCase(e) ==
    IF e = NoErrAlreadyUpToDate \/ e = NoError THEN StartFetchAllRefs(e, 2)
    ELSE Return(e, "failed")

\* the first switch of CloneInto
FirstSwitch(e) ==
    IF e = ErrEmptyRemoteRepository THEN Return(NoError, "skipped-empty")
    ELSE IF e = NoErrAlreadyUpToDate \/ e = NoError THEN StartFetchAllRefs(e, 2)
    ELSE Return(e, "failed")

\* SecondSwitch without its already-up-to-date case
SecondSwitchWithoutUpToDateCase(e) ==
    IF e = NoError THEN Return(NoError, "updated")
    ELSE Return(e, "failed")

\* the second switch of CloneInto
SecondSwitch(e) ==
    IF e = NoErrAlreadyUpToDate THEN Return(NoError, "already-current")
    ELSE IF e = NoError THEN Return(NoError, "updated")
    ELSE Return(e, "failed")

\* fetchAllRefs giving the error of its branch fetch when that failed
FetchAllRefsReturnsBranchError(e, s) ==
    LET branch == {i \in 1..Len(ops) : ops[i][1] = "FetchBranches"}
        b == IF branch = {} THEN NoError
             ELSE ops[CHOOSE i \in branch : \A j \in branch : j <= i][2]
        r == IF b = NoError \/ b = NoErrAlreadyUpToDate THEN e ELSE b
    IN IF s = 1 THEN FirstSwitch(r) ELSE SecondSwitch(r)

\* where fetchAllRefs returns to with its result e
FetchAllRefsReturn(e, s) == IF s = 1 THEN FirstSwitch(e) ELSE SecondSwitch(e)

\* the garbage collections requested when fetchAllRefs returns to call site s
GCAfterFetchAllRefs(s) == IF s = 2 THEN <<<<"GC", "forceGC">>>> ELSE <<>>

\* fetchAllRefs returning the error of its branch fetch instead of going on
AfterBranchFetchReturnsError(a, s) ==
    IF a = NoError \/ a = NoErrAlreadyUpToDate
    THEN [cpc |-> "FetchTags", err |-> a, site |-> s, ret |-> "none"]
    ELSE Return(a, "failed")

\* fetchAllRefs after its branch fetch answered a: the error is logged, a
\* garbage collection is requested and the tag fetch comes next
AfterBranchFetch(a, s) == [cpc |-> "FetchTags", err |-> a, site |-> s, ret |-> "none"]

\* the refspec tag fetch made also after an already-up-to-date tag fetch
TagFallbackAlsoWhenUpToDate(e) == e # NoError

\* the condition under which fetchAllRefs retries the tag fetch with a refspec
TagFallback(e) == e # NoError /\ e # NoErrAlreadyUpToDate

\* PlainOpen, isBare and Worktree: what CloneInto does with an existing path
OpenExisting(loc) ==
    CASE loc = "unopenable" -> FirstSwitch(ErrLocal)
      [] loc = "nonbare-noworktree" -> FirstSwitch(ErrLocal)
      [] loc = "nonbare" -> [cpc |-> "Pull", err |-> NoError, site |-> 0, ret |-> "none"]
      [] OTHER -> StartFetchAllRefs(NoError, 1)

Goto(st) ==
    /\ cpc' = st.cpc
    /\ err' = st.err
    /\ site' = st.site
    /\ ret' = st.ret

Log(events) ==
    /\ ops' = IF logOps THEN ops \o events ELSE ops
    /\ faulted' = (faulted \/ \E i \in 1..Len(events) : events[i][2] = ErrTransport)

PlainClone ==
    /\ cpc = "PlainClone"
    /\ \E a \in PlainCloneAnswers(local, remote) :
        /\ Log(<<<<"PlainClone", a>>>>)
        /\ stale' = StaleAfter("PlainClone", a)
        /\ IF a = ErrRepositoryAlreadyExists
           THEN Goto([cpc |-> "PlainOpen", err |-> a, site |-> 0, ret |-> "none"])
           ELSE Goto(FirstSwitch(a))
    /\ UNCHANGED <<mainVars, histVars, local, remote, logOps, quiet, calls, prev>>

PlainOpen ==
    /\ cpc = "PlainOpen"
    /\ Log(<<<<"PlainOpen", local>>>>)
    /\ UNCHANGED stale
    /\ Goto(OpenExisting(local))
    /\ UNCHANGED <<mainVars, histVars, local, remote, logOps, quiet, calls, prev>>

Pull ==
    /\ cpc = "Pull"
    /\ \E a \in PullAnswers :
        /\ Log(<<<<"Pull", a>>>>)
        /\ stale' = StaleAfter("Pull", a)
        /\ Goto(FirstSwitch(a))
    /\ UNCHANGED <<mainVars, histVars, local, remote, logOps, quiet, calls, prev>>

FetchBranches ==
    /\ cpc = "FetchBranches"
    /\ \E a \in FetchAnswers("heads") :
        /\ Log(<<<<"FetchBranches", a>>, <<"GC", "runtime.GC">>>>)
        /\ stale' = StaleAfter("FetchBranches", a)
        /\ Goto(AfterBranchFetch(a, site))
    /\ UNCHANGED <<mainVars, histVars, local, remote, logOps, quiet, calls, prev>>

FetchTags ==
    /\ cpc = "FetchTags"
    /\ \E a \in FetchAnswers("tags") :
        /\ stale' = StaleAfter("FetchTags", a)
        /\ IF TagFallback(a)
           THEN /\ Log(<<<<"FetchTags", a>>>>)
                /\ Goto([cpc |-> "FetchTagRefs", err |-> a, site |-> site, ret |-> "none"])
           ELSE /\ Log(<<<<"FetchTags", a>>>> \o GCAfterFetchAllRefs(site))
                /\ Goto(FetchAllRefsReturn(a, site))
    /\ UNCHANGED <<mainVars, histVars, local, remote, logOps, quiet, calls, prev>>

FetchTagRefs ==
    /\ cpc = "FetchTagRefs"
    /\ \E a \in FetchAnswers("tags") :
        /\ stale' = StaleAfter("FetchTagRefs", a)
        /\ Log(<<<<"FetchTagRefs", a>>>> \o GCAfterFetchAllRefs(site))
        /\ Goto(FetchAllRefsReturn(a, site))
    /\ UNCHANGED <<mainVars, histVars, local, remote, logOps, quiet, calls, prev>>

\* ------------------------------------------------------------------ main
BackupResult(rc, ec, fr, ok) ==
    [RepoCount |-> rc, ErrorCount |-> ec, FailedRepos |-> fr, Success |-> ok]

\* SourceFailureResult adding the failure to the error count of the run, but not
\* to its failure descriptions
SourceFailureResultAccumulating(description) ==
    BackupResult(repoCount, errors + 1, <<description>>, FALSE)

\* the BackupResult main builds when Test or ListRepositories fails
SourceFailureResult(description) == BackupResult(0, 1, <<description>>, FALSE)

\* the BackupResult main builds when it stops at a failed repository
FailFastResult(rc, ec, fr) == BackupResult(rc, ec, fr, FALSE)

\* FinalResult counting only the repositories that did not fail
FinalResultCountsSuccesses(rc, ec, fr) == BackupResult(rc - ec, ec, fr, ec = 0)

\* the final BackupResult reporting success whatever was recorded
FinalResultAlwaysSuccess(rc, ec, fr) == BackupResult(rc, ec, fr, TRUE)

\* the BackupResult main builds after the loops
FinalResult(rc, ec, fr) == BackupResult(rc, ec, fr, ec = 0)

\* the failure descriptions appended to failedRepos or put in a BackupResult
ConnectionFailure(s) == <<"Connection failed to", s>>
CommunicationFailure(s) == <<"Communication error with", s>>
DirectoryFailure(repo) == <<repo, "directory creation failed">>
SyncFailure(repo, e) == <<repo, e>>

\* ShouldNotify without the test of the URL
NotifyAlways(url) == TRUE

\* `if webhookURL != ""` in front of every SendSlackNotification of main
ShouldNotify(url) == url # ""

\* FailFast ignoring the flag, one way and the other
FailFastNever(fae) == FALSE
FailFastAlways(fae) == TRUE

\* `if *failAtEnd == false` after a repository failure
FailFast(fae) == fae = FALSE

\* main ending in failure also when the summary was not delivered
FinalCauseAfterDelivery(ec) ==
    IF ec > 0 \/ (posts' # posts /\ posts'[Len(posts')] # "200") THEN "repository" ELSE "success"

\* why main ends after the loops: `if errors > 0 { os.Exit(100) }`, else it returns
FinalCause(ec) == IF ec > 0 THEN "repository" ELSE "success"

\* the exit code main gives to each way of ending
ExitCodeOf(why) ==
    CASE why = "success" -> ExitOK
      [] why = "config" -> ExitConfig
      [] why = "no sources" -> ExitNoSources
      [] why = "connectivity" -> ExitConnection
      [] why = "listing" -> ExitCommunication
      [] why = "repository" -> ExitRepoFailure

\* SendSlackNotification: without a URL it returns an error before any HTTP call;
\* with one it POSTs once, and d is what the POST gives
SendSlackNotification(url, result, d) ==
    /\ sent' = Append(sent, result)
    /\ posts' = IF url = "" THEN posts ELSE Append(posts, d)

Notify(result) ==
    IF ShouldNotify(webhookURL)
    THEN \E d \in DeliveryOutcomes : SendSlackNotification(webhookURL, result, d)
    ELSE UNCHANGED <<sent, posts>>

\* Exit leaving the loops without ending the process
ExitFallsThrough(why) ==
    /\ pc' = "final"
    /\ exitCode' = ExitCodeOf(why)
    /\ cause' = why

\* os.Exit, or the return of main
Exit(why) ==
    /\ pc' = "exited"
    /\ exitCode' = ExitCodeOf(why)
    /\ cause' = why

Sum(seq) == LET S[i \in 0..Len(seq)] == IF i = 0 THEN 0 ELSE S[i - 1] + seq[i] IN S[Len(seq)]

Min(a, b) == IF a < b THEN a ELSE b

\* the head of the outer loop, reached with the sources up to s done
NextSource(s) ==
    IF s < nSources
    THEN pc' = "test" /\ si' = s + 1 /\ ri' = 0 /\ nRepos' = 0
    ELSE pc' = "final" /\ UNCHANGED <<si, ri, nRepos>>

\* the head of the inner loop, reached with the repositories up to r done
NextRepo(r) ==
    IF r < nRepos
    THEN pc' = "mkdir" /\ ri' = r + 1 /\ UNCHANGED <<si, nRepos>>
    ELSE NextSource(si)

IdleClone ==
    /\ cpc' = "idle"
    /\ err' = NoError
    /\ site' = 0
    /\ local' = "none"
    /\ remote' = "none"
    /\ ret' = "none"
    /\ ops' = <<>>
    /\ faulted' = FALSE
    /\ UNCHANGED logOps

LoadConfig ==
    /\ pc = "load"
    /\ \E ok \in BOOLEAN :
        IF ~ok
        THEN Exit("config") /\ UNCHANGED <<nSources, si>>
        ELSE \E n \in 0..MaxSources :
            /\ nSources' = n
            /\ IF n = 0
               THEN Exit("no sources") /\ UNCHANGED si
               ELSE pc' = "test" /\ si' = 1 /\ UNCHANGED <<exitCode, cause>>
    /\ UNCHANGED <<failAtEnd, webhookURL, nRepos, ri, repoCount, errors, failedRepos,
                   sent, posts, cloneVars, listings, attempts, outcomes>>
    /\ UNCHANGED callerVars

TestSource ==
    /\ pc = "test"
    /\ \E ok \in BOOLEAN :
        IF ok
        THEN pc' = "list" /\ UNCHANGED <<exitCode, cause, sent, posts>>
        ELSE /\ Notify(SourceFailureResult(ConnectionFailure(si)))
             /\ Exit("connectivity")
    /\ UNCHANGED <<failAtEnd, webhookURL, nSources, si, nRepos, ri, repoCount, errors,
                   failedRepos, cloneVars, listings, attempts, outcomes>>
    /\ UNCHANGED callerVars

ListRepositories ==
    /\ pc = "list"
    /\ \E ok \in BOOLEAN :
        IF ok
        THEN \E n \in 0..Min(MaxRepos, MaxTotalRepos - Sum(listings)) :
            /\ listings' = Append(listings, n)
            /\ nRepos' = n
            /\ IF n > 0
               THEN pc' = "mkdir" /\ ri' = 1 /\ UNCHANGED si
               ELSE /\ ri' = 0
                    /\ IF si < nSources
                       THEN pc' = "test" /\ si' = si + 1
                       ELSE pc' = "final" /\ UNCHANGED si
            /\ UNCHANGED <<exitCode, cause, sent, posts>>
        ELSE /\ Notify(SourceFailureResult(CommunicationFailure(si)))
             /\ Exit("listing")
             /\ UNCHANGED <<listings, nRepos, ri, si>>
    /\ UNCHANGED <<failAtEnd, webhookURL, nSources, repoCount, errors, failedRepos,
                   cloneVars, attempts, outcomes>>
    /\ UNCHANGED callerVars

MkdirAll ==
    /\ pc = "mkdir"
    /\ \E ok \in BOOLEAN :
        IF ok
        THEN /\ pc' = "sync"
             /\ \E loc \in LocalStates, rem \in RemoteStates :
                 local' = loc /\ remote' = rem
             /\ cpc' = "PlainClone"
             /\ attempts' = attempts \o <<<<"MkdirAll", <<si, ri>>>>, <<"CloneInto", <<si, ri>>>>>>
             /\ UNCHANGED <<err, site, ret, ops, logOps, faulted>>
             /\ UNCHANGED <<si, nRepos, ri, errors, failedRepos, exitCode, cause,
                            sent, posts, outcomes>>
        ELSE /\ errors' = errors + 1
             /\ failedRepos' = Append(failedRepos, DirectoryFailure(<<si, ri>>))
             /\ attempts' = Append(attempts, <<"MkdirAll", <<si, ri>>>>)
             /\ outcomes' = Append(outcomes,
                    [repo |-> <<si, ri>>, dir |-> FALSE, ret |-> "none"])
             /\ IF FailFast(failAtEnd)
                THEN /\ Notify(FailFastResult(repoCount, errors', failedRepos'))
                     /\ Exit("repository")
                     /\ UNCHANGED <<si, nRepos, ri>>
                ELSE /\ NextRepo(ri)
                     /\ UNCHANGED <<exitCode, cause, sent, posts>>
             /\ UNCHANGED cloneVars
    /\ UNCHANGED <<failAtEnd, webhookURL, nSources, repoCount, listings>>
    /\ UNCHANGED callerVars

\* main, from the return of CloneInto to the head of the inner loop
AfterCloneInto ==
    /\ pc = "sync"
    /\ cpc = "returned"
    /\ outcomes' = Append(outcomes,
           [repo |-> <<si, ri>>, dir |-> TRUE, ret |-> ret])
    /\ IF err # NoError
       THEN /\ errors' = errors + 1
            /\ failedRepos' = Append(failedRepos, SyncFailure(<<si, ri>>, err))
            /\ IF FailFast(failAtEnd)
               THEN /\ Notify(FailFastResult(repoCount, errors', failedRepos'))
                    /\ Exit("repository")
                    /\ UNCHANGED <<si, nRepos, ri, repoCount>>
               ELSE /\ repoCount' = repoCount + 1
                    /\ NextRepo(ri)
                    /\ UNCHANGED <<exitCode, cause, sent, posts>>
       ELSE /\ repoCount' = repoCount + 1
            /\ NextRepo(ri)
            /\ UNCHANGED <<errors, failedRepos, exitCode, cause, sent, posts>>
    /\ IdleClone
    /\ UNCHANGED <<failAtEnd, webhookURL, nSources, listings, attempts>>
    /\ UNCHANGED callerVars

Finish ==
    /\ pc = "final"
    /\ Notify(FinalResult(repoCount, errors, failedRepos))
    /\ Exit(FinalCause(errors))
    /\ UNCHANGED <<failAtEnd, webhookURL, nSources, si, nRepos, ri, repoCount, errors,
                   failedRepos, cloneVars, listings, attempts, outcomes>>
    /\ UNCHANGED callerVars

Init ==
    /\ pc = "load"
    /\ failAtEnd \in BOOLEAN
    /\ webhookURL \in WebhookURLs
    /\ nSources = 0
    /\ si = 0
    /\ nRepos = 0
    /\ ri = 0
    /\ repoCount = 0
    /\ errors = 0
    /\ failedRepos = <<>>
    /\ exitCode = 0
    /\ sent = <<>>
    /\ posts = <<>>
    /\ cpc = "idle"
    /\ err = NoError
    /\ site = 0
    /\ local = "none"
    /\ remote = "none"
    /\ ret = "none"
    /\ ops = <<>>
    /\ logOps = FALSE
    /\ faulted = FALSE
    /\ stale = {}
    /\ quiet = FALSE
    /\ calls = 0
    /\ prev = NoCall
    /\ cause = "none"
    /\ listings = <<>>
    /\ attempts = <<>>
    /\ outcomes = <<>>

Next ==
    \/ LoadConfig
    \/ TestSource
    \/ ListRepositories
    \/ MkdirAll
    \/ PlainClone
    \/ PlainOpen
    \/ Pull
    \/ FetchBranches
    \/ FetchTags
    \/ FetchTagRefs
    \/ AfterCloneInto
    \/ Finish

Spec == Init /\ [][Next]_vars

\* ------------------------------------------- the sync engine on its own
\* CloneInto called directly, one call after the other, with its library calls
\* logged in ops.
MaxCalls == 2

\* the refs a path can lack when CloneInto is first called on it: a path
\* holding no repository lacks them all
StartingStale(loc, rem, q) ==
    IF ~q \/ rem = "empty" THEN {{}}
    ELSE IF loc = "absent" THEN {RefNamespaces}
    ELSE IF loc \in {"bare", "nonbare"} THEN SUBSET RefNamespaces
    ELSE {{}}

\* what a call did, read off its log: it cloned, it brought refs in, or it
\* found nothing to bring
Did(log) ==
    IF log # <<>> /\ log[1] = <<"PlainClone", NoError>> THEN "cloned"
    ELSE IF \E i \in 1..Len(log) : log[i][1] # "GC" /\ log[i][2] = NoError THEN "updated"
    ELSE "nothing"

\* what the path holds after a call: a successful clone leaves a bare or a
\* non-bare repository, according to the bare argument
LocalAfter(log) ==
    IF log # <<>> /\ log[1] = <<"PlainClone", NoError>> THEN {"bare", "nonbare"}
    ELSE {local}

CallCloneInto ==
    /\ pc = "caller"
    /\ cpc = "idle"
    /\ calls < MaxCalls
    /\ IF calls = 0
       THEN \E loc \in LocalStates, rem \in RemoteStates, q \in BOOLEAN :
                \E st \in StartingStale(loc, rem, q) :
                    /\ local' = loc
                    /\ remote' = rem
                    /\ quiet' = q
                    /\ stale' = st
                    /\ prev' = [prev EXCEPT !.due = st # {}]
       ELSE /\ prev' = [prev EXCEPT !.due = stale # {}]
            /\ UNCHANGED <<local, remote, quiet, stale>>
    /\ calls' = calls + 1
    /\ cpc' = "PlainClone"
    /\ UNCHANGED <<mainVars, histVars, err, site, ret, ops, logOps, faulted>>

CloneIntoReturned ==
    /\ pc = "caller"
    /\ cpc = "returned"
    /\ IF calls < MaxCalls
       THEN /\ prev' = [local |-> local, err |-> err, ret |-> ret, faulted |-> faulted,
                        did |-> Did(ops), due |-> FALSE, wasDue |-> prev.due]
            /\ local' \in LocalAfter(ops)
            /\ UNCHANGED <<remote, quiet, stale, calls>>
       ELSE /\ prev' = NoCall
            /\ local' = "none"
            /\ remote' = "none"
            /\ quiet' = FALSE
            /\ stale' = {}
            /\ calls' = 0
    /\ cpc' = "idle"
    /\ err' = NoError
    /\ site' = 0
    /\ ret' = "none"
    /\ ops' = <<>>
    /\ faulted' = FALSE
    /\ UNCHANGED <<mainVars, histVars, logOps>>

SyncInit ==
    /\ pc = "caller"
    /\ failAtEnd = FALSE
    /\ webhookURL = ""
    /\ nSources = 0
    /\ si = 0
    /\ nRepos = 0
    /\ ri = 0
    /\ repoCount = 0
    /\ errors = 0
    /\ failedRepos = <<>>
    /\ exitCode = 0
    /\ sent = <<>>
    /\ posts = <<>>
    /\ cpc = "idle"
    /\ err = NoError
    /\ site = 0
    /\ local = "none"
    /\ remote = "none"
    /\ ret = "none"
    /\ ops = <<>>
    /\ logOps = TRUE
    /\ faulted = FALSE
    /\ stale = {}
    /\ quiet = FALSE
    /\ calls = 0
    /\ prev = NoCall
    /\ cause = "none"
    /\ listings = <<>>
    /\ attempts = <<>>
    /\ outcomes = <<>>

SyncNext ==
    \/ CallCloneInto
    \/ PlainClone
    \/ PlainOpen
    \/ Pull
    \/ FetchBranches
    \/ FetchTags
    \/ FetchTagRefs
    \/ CloneIntoReturned

SyncSpec == SyncInit /\ [][SyncNext]_vars

\* ---------------------------------------------------------------- claims
\* the repositories listed so far, source by source, in listing order
RECURSIVE ReposOf(_, _)
ReposOf(s, r) ==
    IF s > Len(listings) THEN <<>>
    ELSE IF r > listings[s] THEN ReposOf(s + 1, 1)
    ELSE <<<<s, r>>>> \o ReposOf(s, r + 1)

Listed == ReposOf(1, 1)

SyncFailed(o) == o.dir /\ o.ret = "failed"
RepoFailed(o) == ~o.dir \/ SyncFailed(o)
NFailed == Cardinality({i \in 1..Len(outcomes) : RepoFailed(outcomes[i])})
Named(fr) == {fr[j][1] : j \in 1..Len(fr)}

\* main ended after both loops ran to their end
Completed == pc = "exited" /\ cause \in {"success", "repository"} /\ Len(outcomes) = Len(Listed)

\* C1: a CloneInto on a remote with zero commits that every remote call reached
\* (no transport failure), the path holding no repository, a bare one or a
\* non-bare one, returns nil through the empty-repository case; and main never
\* records a failure for a repository whose CloneInto returned that way.
C1_EmptyRemoteIsSuccess ==
    /\ (cpc = "returned" /\ remote = "empty" /\ ~faulted
            /\ local \in {"absent", "bare", "nonbare"})
        => (err = NoError /\ ret = "skipped-empty")
    /\ \A i \in 1..Len(outcomes) :
        outcomes[i].ret = "skipped-empty" => outcomes[i].repo \notin Named(failedRepos)
    /\ errors = NFailed

C1_Witness ==
    /\ cpc = "returned" /\ remote = "empty" /\ ~faulted /\ local = "bare"
    /\ ret = "skipped-empty"

\* C2: with fail-at-end=false, once a repository failure is recorded the process
\* has exited, the last MkdirAll or CloneInto call made is the one of the failed
\* repository, and every summary built has ErrorCount 1 and one description.
C2_FailFastStopsAtFirstFailure ==
    (~failAtEnd /\ errors > 0) =>
        /\ pc = "exited" /\ cause = "repository" /\ cpc = "idle"
        /\ errors = 1 /\ Len(failedRepos) = 1
        /\ attempts[Len(attempts)][2] = failedRepos[1][1]
        /\ outcomes[Len(outcomes)].repo = failedRepos[1][1]
        /\ \A i \in 1..Len(sent) :
            sent[i].ErrorCount = 1 /\ Len(sent[i].FailedRepos) = 1

C2_Witness ==
    /\ ~failAtEnd /\ errors = 1 /\ pc = "exited" /\ Len(sent) = 1
    /\ Len(outcomes) = 2 /\ Len(Listed) = 3 /\ outcomes[2].ret = "failed"

\* C3 (as claimed): with fail-at-end=true and no source failure, at the end of the
\* run ErrorCount is the number of failed repositories and RepoCount the number
\* of all repositories listed.
C3_CountsAllRepositories ==
    (Completed /\ failAtEnd) =>
        /\ errors = NFailed
        /\ repoCount = Len(Listed)
        /\ \A i \in 1..Len(sent) :
            sent[i].ErrorCount = NFailed /\ sent[i].RepoCount = Len(Listed)

\* The scenario of C4: one source, three repositories, all directories created,
\* one remote empty, one sync failed in transport, one synced; fail-at-end=true,
\* the run at its end with its summary sent.
C4_Scenario ==
    /\ Completed /\ failAtEnd /\ nSources = 1 /\ listings = <<3>>
    /\ Len(sent) = 1
    /\ \A i \in 1..3 : outcomes[i].dir
    /\ \E e, f, n \in 1..3 :
        /\ e # f /\ e # n /\ f # n
        /\ outcomes[e].ret = "skipped-empty"
        /\ outcomes[f].ret = "failed"
        /\ SyncFailure(outcomes[f].repo, ErrTransport) \in {failedRepos[j] : j \in 1..Len(failedRepos)}
        /\ outcomes[n].ret \in {"updated", "already-current"}

C4_FailedRepo == (CHOOSE i \in 1..3 : outcomes[i].ret = "failed")

RECURSIVE CallsFor(_)
CallsFor(i) ==
    IF i > Len(outcomes) THEN <<>>
    ELSE (IF outcomes[i].dir
          THEN <<<<"MkdirAll", outcomes[i].repo>>, <<"CloneInto", outcomes[i].repo>>>>
          ELSE <<<<"MkdirAll", outcomes[i].repo>>>>) \o CallsFor(i + 1)

\* C5: with fail-at-end=true and no source failure, at the end of the run MkdirAll
\* was called for every listed repository, in listing order, CloneInto was called
\* right after it exactly for the repositories whose directory was created, and
\* every directory failure is recorded.
C5_FailAtEndAttemptsEveryRepository ==
    (failAtEnd /\ pc = "exited" /\ cause \in {"success", "repository"}) =>
        /\ Len(outcomes) = Len(Listed)
        /\ \A i \in 1..Len(outcomes) : outcomes[i].repo = Listed[i]
        /\ attempts = CallsFor(1)
        /\ \A i \in 1..Len(outcomes) :
            ~outcomes[i].dir =>
                DirectoryFailure(outcomes[i].repo) \in {failedRepos[j] : j \in 1..Len(failedRepos)}

C5_Witness ==
    /\ failAtEnd /\ pc = "exited" /\ cause = "repository"
    /\ Len(outcomes) = 3 /\ ~outcomes[1].dir /\ outcomes[2].ret = "failed"
    /\ outcomes[3].ret = "updated"

\* C6: once Test or ListRepositories of a source has failed, whatever fail-at-end
\* is, the process has exited and no MkdirAll or CloneInto was made for a
\* repository of that source or of a later one.
C6_SourceFailureStopsRun ==
    (cause \in {"connectivity", "listing"}) =>
        /\ pc = "exited" /\ cpc = "idle"
        /\ Len(listings) = si - 1
        /\ \A i \in 1..Len(attempts) : attempts[i][2][1] < si
        /\ Len(sent) <= 1

C6_Witness ==
    /\ cause = "listing" /\ failAtEnd /\ si = 2 /\ errors = 1 /\ Len(attempts) = 3

IsPrefix(a, b) == Len(a) <= Len(b) /\ \A i \in 1..Len(a) : a[i] = b[i]

\* C7 (as claimed): every summary handed over carries what the run accumulated:
\* its RepoCount is repoCount and its ErrorCount and FailedRepos include every
\* failure recorded before.
C7_SummaryCarriesAccumulatedCounts ==
    \A i \in 1..Len(sent) :
        /\ sent[i].RepoCount = repoCount
        /\ sent[i].ErrorCount >= errors
        /\ IsPrefix(failedRepos, sent[i].FailedRepos)

\* the kinds of ending the exit code has to tell apart
Endings == {"success", "no sources", "connectivity", "listing", "repository"}
Kind(why) == IF why \in {"connectivity", "listing"} THEN "source" ELSE why

\* C8 (as claimed): the exit code tells the kind of ending: no ending of another
\* kind (success, no sources, source failure, repository failure) has the exit
\* code the process ended with.
C8_ExitCodesDistinguishable ==
    (pc = "exited" /\ cause \in Endings) =>
        \A why \in Endings : ExitCodeOf(why) = exitCode => Kind(why) = Kind(cause)

\* C9: a run with at least one source hands at most one summary to the notifier,
\* and once it has exited it has handed over exactly one if a webhook endpoint is
\* configured and none otherwise; every summary handed over with an endpoint is
\* one HTTP POST.
C9_NotifiedExactlyOnce ==
    /\ Len(sent) <= 1
    /\ Len(posts) = Len(sent)
    /\ (pc = "exited" /\ nSources >= 1) =>
        Len(sent) = (IF webhookURL # "" THEN 1 ELSE 0)

C9_Witness ==
    /\ pc = "exited" /\ cause = "listing" /\ webhookURL # "" /\ Len(sent) = 1
    /\ si = 2

\* C10: in every state errors is the length of failedRepos, and in every
\* BackupResult handed to the notifier ErrorCount is the length of FailedRepos.
C10_ErrorCountIsLengthOfFailedRepos ==
    /\ errors = Len(failedRepos)
    /\ \A i \in 1..Len(sent) : sent[i].ErrorCount = Len(sent[i].FailedRepos)

C10_Witness ==
    /\ pc = "exited" /\ cause = "connectivity" /\ Len(sent) = 1 /\ errors = 2

\* the exit code that the outcomes of the sources and repositories call for:
\* nothing of the notification enters it
ExitCodeFromOutcomes ==
    IF cause \in {"config", "no sources", "connectivity", "listing"} THEN ExitCodeOf(cause)
    ELSE IF NFailed > 0 THEN ExitRepoFailure
    ELSE ExitOK

\* C11: the exit code of an ended run is fixed by the outcomes of its sources
\* and repositories (and by fail-at-end through them): it is the same with and
\* without a webhook endpoint and whatever the delivery of the summary gave; and
\* without an endpoint no HTTP call is made.
C11_ExitCodeIgnoresNotification ==
    /\ webhookURL = "" => posts = <<>>
    /\ pc = "exited" => exitCode = ExitCodeFromOutcomes

C11_Witness ==
    /\ pc = "exited" /\ webhookURL # "" /\ posts = <<"post-error">>
    /\ Len(outcomes) >= 1 /\ exitCode = ExitOK


\* ---------------------------------------------- claims on CloneInto (SyncSpec)
\* the paths CloneInto can work on: no repository, a bare one, a non-bare one
Workable == {"absent", "bare", "nonbare"}

\* a call has returned without any transport failure, on a workable path whose
\* populated remote was left alone
QuietCallReturned ==
    /\ pc = "caller" /\ cpc = "returned"
    /\ quiet /\ remote = "populated" /\ ~faulted

Succeeds(a) == a = NoError \/ a = NoErrAlreadyUpToDate
TagFetches == {"FetchTags", "FetchTagRefs"}

\* the call returned from the fetchAllRefs of line 168: forceGC was its last step
ReturnedAfterRefresh ==
    /\ pc = "caller" /\ cpc = "returned"
    /\ Len(ops) >= 2 /\ ops[Len(ops)] = <<"GC", "forceGC">>

\* the fetchAllRefs of line 149 has just returned and its result went through
\* the first switch: the call ended, or the fetchAllRefs of line 168 begins
AfterFirstRefresh ==
    /\ pc = "caller" /\ ops # <<>> /\ ops[Len(ops)][1] \in TagFetches
    /\ cpc \in {"returned", "FetchBranches"}

\* C13: the result of fetchAllRefs is the answer of the last fetch it made (the
\* tag fetch, or the refspec tag fetch when that was made), whatever its branch
\* fetch answered; when the fetchAllRefs of line 168 gives nil or
\* already-up-to-date CloneInto returns nil, and any other result is returned as
\* the error of CloneInto.  (The result of the fetchAllRefs of line 149 goes
\* through the first switch.)
C13_ResultIsLastFetch ==
    /\ ReturnedAfterRefresh =>
        LET last == ops[Len(ops) - 1] IN
        /\ last[1] \in TagFetches
        /\ err = (IF Succeeds(last[2]) THEN NoError ELSE last[2])
        /\ ret = (IF last[2] = NoErrAlreadyUpToDate THEN "already-current"
                  ELSE IF last[2] = NoError THEN "updated" ELSE "failed")
    /\ AfterFirstRefresh =>
        LET last == ops[Len(ops)] IN
        IF cpc = "FetchBranches"
        THEN site = 2 /\ Succeeds(last[2]) /\ err = last[2]
        ELSE /\ ~Succeeds(last[2])
             /\ err = (IF last[2] = ErrEmptyRemoteRepository THEN NoError ELSE last[2])

C13_Witness ==
    /\ ReturnedAfterRefresh /\ Len(ops) >= 4
    /\ ops[Len(ops) - 3] = <<"FetchBranches", ErrTransport>>
    /\ ops[Len(ops) - 1] = <<"FetchTags", NoError>>
    /\ err = NoError


\* C14 (as claimed): a call that found no repository at the path and whose
\* mirror clone succeeded returns nil: nothing after the clone makes it fail.
C14_CloneSuccessIsCallSuccess ==
    (pc = "caller" /\ cpc = "returned" /\ ops # <<>> /\ ops[1] = <<"PlainClone", NoError>>) =>
        err = NoError

\* how many times a call made the library call named op
Count(op) == Cardinality({i \in 1..Len(ops) : ops[i][1] = op})

\* C15 (as claimed): a call on a path holding a bare repository makes no pull
\* and runs fetchAllRefs exactly once: one branch fetch and one tag fetch, never
\* a second round.
C15_BareRefreshedOnce ==
    (pc = "caller" /\ cpc = "returned" /\ local = "bare") =>
        /\ Count("Pull") = 0
        /\ Count("FetchBranches") = 1
        /\ Count("FetchTags") = 1


\* C16: in every fetchAllRefs the branch fetch comes before the tag fetch, and
\* the tag fetch is the next library call after the branch fetch whatever the
\* branch fetch answered: every logged tag fetch follows a branch fetch (and the
\* collection after it), every branch fetch is followed by a tag fetch or has
\* the tag fetch as the call's next step, and a call never returns in between.
C16_BranchFetchThenTagFetch ==
    pc = "caller" =>
        /\ \A i \in 1..Len(ops) :
            /\ ops[i][1] = "FetchTags" =>
                i >= 3 /\ ops[i - 2][1] = "FetchBranches" /\ ops[i - 1] = <<"GC", "runtime.GC">>
            /\ ops[i][1] = "FetchBranches" =>
                IF i + 2 <= Len(ops) THEN ops[i + 2][1] = "FetchTags"
                ELSE i + 1 = Len(ops) /\ cpc = "FetchTags"
        /\ cpc = "FetchTags" => ops # <<>> /\ ops[Len(ops)] = <<"GC", "runtime.GC">>
        /\ cpc = "returned" => Count("FetchTags") = Count("FetchBranches")

C16_Witness ==
    /\ pc = "caller" /\ cpc = "returned" /\ Len(ops) >= 5
    /\ \E i \in 1..(Len(ops) - 2) :
        /\ ops[i] = <<"FetchBranches", ErrTransport>>
        /\ ops[i + 2] = <<"FetchTags", NoErrAlreadyUpToDate>>

\* C17: in every fetchAllRefs the refspec tag fetch is made at most once, and it
\* is made exactly when the tag fetch before it answered an error other than
\* already-up-to-date; when it fails it is not made again.
C17_RefspecFetchOnlyAfterFailedTagFetch ==
    pc = "caller" =>
        /\ \A i \in 1..Len(ops) :
            /\ ops[i][1] = "FetchTagRefs" =>
                i >= 2 /\ ops[i - 1][1] = "FetchTags" /\ ~Succeeds(ops[i - 1][2])
            /\ ops[i][1] = "FetchTags" =>
                IF Succeeds(ops[i][2])
                THEN i < Len(ops) => ops[i + 1][1] # "FetchTagRefs"
                ELSE IF i < Len(ops) THEN ops[i + 1][1] = "FetchTagRefs"
                     ELSE cpc = "FetchTagRefs"
        /\ cpc = "FetchTagRefs" => ops # <<>> /\ ops[Len(ops)][1] = "FetchTags"
        /\ Count("FetchTagRefs") <= Count("FetchTags")

C17_Witness ==
    /\ pc = "caller" /\ cpc = "returned" /\ ret = "failed" /\ Len(ops) >= 3
    /\ ops[Len(ops) - 2] = <<"FetchTags", ErrTransport>>
    /\ ops[Len(ops) - 1] = <<"FetchTagRefs", ErrTransport>>


\* C18: a call on a path holding a non-bare repository pulls before any fetch;
\* when the pull answers nil or already-up-to-date the fetchAllRefs of line 168
\* comes next, so an already-up-to-date pull neither fails the call nor ends it
\* before the refs are refreshed: the call returns only from that fetchAllRefs.
C18_PullThenRefresh ==
    (pc = "caller" /\ local = "nonbare") =>
        /\ \A i \in 1..Len(ops) :
            /\ ops[i][1] = "Pull" => i = 3
            /\ ops[i][1] \in {"FetchBranches"} \cup TagFetches => i > 3 /\ ops[3][1] = "Pull"
        /\ cpc = "Pull" => Len(ops) = 2
        /\ (Len(ops) >= 3 /\ Succeeds(ops[3][2])) =>
            /\ IF Len(ops) = 3 THEN cpc = "FetchBranches" /\ site = 2
               ELSE ops[4][1] = "FetchBranches"
            /\ cpc = "returned" => ReturnedAfterRefresh

C18_Witness ==
    /\ pc = "caller" /\ cpc = "returned" /\ local = "nonbare"
    /\ Len(ops) >= 3 /\ ops[3] = <<"Pull", NoErrAlreadyUpToDate>>
    /\ ReturnedAfterRefresh /\ ret = "updated"

\* the tag fetches of a fetchAllRefs end with ops[i]
EndOfTagFetches(i) ==
    \/ ops[i][1] = "FetchTagRefs"
    \/ ops[i][1] = "FetchTags" /\ Succeeds(ops[i][2])

\* C19 (as claimed): in every fetchAllRefs of a call a garbage collection is
\* requested between the branch fetch and the tag fetch, and another after the
\* tag fetches, before any further fetch begins and before the call returns.
C19_GCAfterEveryFetchRound ==
    pc = "caller" =>
        \A i \in 1..Len(ops) :
            /\ ops[i][1] = "FetchBranches" => i < Len(ops) /\ ops[i + 1][1] = "GC"
            /\ (EndOfTagFetches(i) /\ (i < Len(ops) \/ cpc = "returned")) =>
                i < Len(ops) /\ ops[i + 1][1] = "GC"


\* ------------------------------------------------- claims on main (Spec)
\* a source failed its Test or its ListRepositories
SourceFailed == cause \in {"connectivity", "listing"}

\* C20: a run over at least one source exits with code 0 exactly when no source
\* failed its Test or ListRepositories and no repository failure was recorded;
\* and once a failure has been recorded the run exits with a non-zero code and
\* every summary handed to the notifier has Success false.
C20_ExitZeroIffNoFailure ==
    /\ (pc = "exited" /\ nSources >= 1) =>
        exitCode = ExitOK <=> (~SourceFailed /\ NFailed = 0 /\ errors = 0)
    /\ (errors > 0 \/ (pc = "exited" /\ SourceFailed)) =>
        /\ pc = "exited" => exitCode # ExitOK
        /\ \A i \in 1..Len(sent) : sent[i].Success = FALSE

C20_Witness ==
    /\ pc = "exited" /\ failAtEnd /\ cause = "repository"
    /\ errors = 1 /\ Len(outcomes) = 3 /\ Len(sent) = 1 /\ sent[1].RepoCount >= 2

====
